---- MODULE Spec2Model ----
(***************************************************************************)
(* Model of scripts/parse_commands.py: main() submits one parse_command    *)
(* task per command inside an asyncio.TaskGroup; each task retries         *)
(* _parse_command up to five times with exponential backoff, and the       *)
(* remote call of _parse_command runs under the module semaphore.          *)
(*                                                                         *)
(* One action is one step of the event loop: the code a coroutine runs     *)
(* between two awaits, or one callback.                                    *)
(***************************************************************************)
EXTENDS Integers, Sequences, FiniteSets, TLC

\* Largest number of commands in docs/commands.json that is explored.
MaxItems == 2

\* Largest initial value of SEMAPHORE that is explored (the script uses 30).
MaxCapacity == 2

\* range(5) of the retry loop.
MaxAttempts == 5

\* The attempt index at which the except branch re-raises.
LastAttempt == 4

\* Base of the backoff delay, 2 ** attempt.
BackoffBase == 2

\* The number of commands of the crowded run: one more than Spec submits.
CrowdItems == MaxItems + 1

\* Task slots, by position of the command; a slot beyond len(commands)
\* stays unused.
Items == 0 .. (CrowdItems - 1)

VARIABLES
    commands,    \* len(commands): the number of input items
    limit,       \* the initial value of SEMAPHORE
    value,       \* SEMAPHORE._value
    waiters,     \* SEMAPHORE._waiters, oldest first
    pc,          \* where each parse_command task is
    attempt,     \* the loop variable of each task
    holds,       \* permits each task holds
    mustCancel,  \* a cancellation was requested and is not yet delivered
    lastError,   \* what made the latest attempt of each task fail
    result,      \* the shared result list
    progress,    \* progress.n
    mainpc,      \* where main() is
    nextItem,    \* index of the next command of the submission loop
    tasks,       \* TaskGroup._tasks
    errors,      \* TaskGroup._errors, as the set of tasks that raised
    aborting,    \* TaskGroup._aborting
    mainCancel,  \* a cancellation of main() is requested and not delivered
    written,     \* what was dumped to parsed_commands.json
    calls,       \* history: extractor calls started per item
    slept,       \* history: backoff delays taken per item
    ticks,       \* history: progress.update calls per item
    pacing       \* history: pacing sleeps started by main()

vars == <<commands, limit, value, waiters, pc, attempt, holds, mustCancel,
          lastError, result, progress, mainpc, nextItem, tasks, errors,
          aborting, mainCancel, written, calls, slept, ticks, pacing>>

semVars == <<value, waiters, holds, calls>>
groupVars == <<tasks, errors, aborting, mainCancel>>
mainVars == <<mainpc, nextItem, written, pacing>>
outVars == <<result, progress, ticks>>

\* The record the extractor returns for the command at position i.
Command(i) == [source |-> i]

RECURSIVE Pow(_, _)
Pow(b, e) == IF e = 0 THEN 1 ELSE b * Pow(b, e - 1)

\* A backoff that grows linearly.
BackoffLinear(a) == BackoffBase * a

\* The delay of asyncio.sleep(2 ** attempt).
Backoff(a) == Pow(BackoffBase, a)

RECURSIVE SumSeq(_)
SumSeq(s) == IF s = <<>> THEN 0 ELSE Head(s) + SumSeq(Tail(s))

Remove(s, x) == SelectSeq(s, LAMBDA y : y # x)

Live == {"ready", "waiting", "calling", "sleeping"}
Terminal == {"done", "failed", "cancelled"}

\* The state main() has built when it enters the task group.
Loaded ==
    /\ value = limit
    /\ waiters = <<>>
    /\ pc = [i \in Items |-> "new"]
    /\ attempt = [i \in Items |-> 0]
    /\ holds = [i \in Items |-> 0]
    /\ mustCancel = [i \in Items |-> FALSE]
    /\ lastError = [i \in Items |-> "none"]
    /\ result = <<>>
    /\ progress = 0
    /\ mainpc = "loop"
    /\ nextItem = 0
    /\ tasks = {}
    /\ errors = {}
    /\ aborting = FALSE
    /\ mainCancel = FALSE
    /\ written = <<>>
    /\ calls = [i \in Items |-> 0]
    /\ slept = [i \in Items |-> <<>>]
    /\ ticks = [i \in Items |-> 0]
    /\ pacing = 0

Init ==
    /\ commands \in 0 .. MaxItems
    /\ limit \in 1 .. MaxCapacity
    /\ Loaded

(***************************************************************************)
(* asyncio.Semaphore                                                       *)
(***************************************************************************)

\* Semaphore.locked(): no permit left, or a waiter that is not cancelled.
Locked == value = 0 \/ \E k \in 1 .. Len(waiters) : ~mustCancel[waiters[k]]

\* A wake-up that is lost: no waiter is ever chosen.
WakeableNone(w, mc) == <<>>

\* The waiters _wake_up_next may wake: those whose future is not done.
Wakeable(w, mc) == SelectSeq(w, LAMBDA j : ~mc[j])

\* A limiter that admits every caller.
MustWaitNever == FALSE

\* Whether the task entering the async with block must queue.
MustWait == Locked

\* A release that gives nothing back.
ReleasedNothing(v) == v

\* What the semaphore hands back when a permit is released.
Released(v) == v + 1

\* async with SEMAPHORE, entered by task i: take a permit and start the
\* remote call, or queue behind the waiters.
Acquire(i) ==
    IF ~MustWait
    THEN /\ value' = value - 1
         /\ holds' = [holds EXCEPT ![i] = @ + 1]
         /\ calls' = [calls EXCEPT ![i] = @ + 1]
         /\ pc' = [pc EXCEPT ![i] = "calling"]
         /\ waiters' = waiters
    ELSE /\ waiters' = Append(waiters, i)
         /\ pc' = [pc EXCEPT ![i] = "waiting"]
         /\ UNCHANGED <<value, holds, calls>>

\* A release that is skipped when the call did not succeed.
ReleaseOnSuccessOnly(i, np, mc) ==
    LET w == Wakeable(waiters, mc) IN
    IF np # "done"
    THEN /\ pc' = [pc EXCEPT ![i] = np]
         /\ UNCHANGED <<value, holds, waiters, calls>>
    ELSE IF w = <<>>
    THEN /\ value' = Released(value)
         /\ holds' = [holds EXCEPT ![i] = @ - 1]
         /\ pc' = [pc EXCEPT ![i] = np]
         /\ UNCHANGED <<waiters, calls>>
    ELSE LET j == Head(w) IN
         /\ value' = Released(value) - 1
         /\ holds' = [holds EXCEPT ![i] = @ - 1, ![j] = @ + 1]
         /\ calls' = [calls EXCEPT ![j] = @ + 1]
         /\ waiters' = Remove(waiters, j)
         /\ pc' = [pc EXCEPT ![i] = np, ![j] = "calling"]

\* Semaphore.release() by task i followed by _wake_up_next(): the permit
\* goes to the first waiter that is not cancelled, which starts its call.
\* np is the pc of the releasing task after the step.
Release(i, np, mc) ==
    LET w == Wakeable(waiters, mc) IN
    IF w = <<>>
    THEN /\ value' = Released(value)
         /\ holds' = [holds EXCEPT ![i] = @ - 1]
         /\ pc' = [pc EXCEPT ![i] = np]
         /\ UNCHANGED <<waiters, calls>>
    ELSE LET j == Head(w) IN
         /\ value' = Released(value) - 1
         /\ holds' = [holds EXCEPT ![i] = @ - 1, ![j] = @ + 1]
         /\ calls' = [calls EXCEPT ![j] = @ + 1]
         /\ waiters' = Remove(waiters, j)
         /\ pc' = [pc EXCEPT ![i] = np, ![j] = "calling"]

(***************************************************************************)
(* CommandParser.parse_command                                             *)
(***************************************************************************)

\* The first step of a new task: attempt 0 enters _parse_command.
Start(i) ==
    /\ pc[i] = "ready"
    /\ ~mustCancel[i]
    /\ Acquire(i)
    /\ UNCHANGED <<commands, limit, attempt, mustCancel, lastError>>
    /\ UNCHANGED <<outVars, mainVars, groupVars, slept>>

\* for attempt in range(5): whether the loop has another iteration.
InRange(a) == a < MaxAttempts

\* A retry loop that never advances its counter.
NextAttemptStuck(a) == a

\* for attempt in range(5): the value of attempt in the next iteration.
NextAttempt(a) == a + 1

\* asyncio.sleep(2 ** attempt) returns: the loop takes its next iteration,
\* or falls out of range(5) and raises RuntimeError.
Wake(i) ==
    /\ pc[i] = "sleeping"
    /\ ~mustCancel[i]
    /\ attempt' = [attempt EXCEPT ![i] = NextAttempt(@)]
    /\ IF InRange(NextAttempt(attempt[i]))
       THEN /\ Acquire(i)
            /\ UNCHANGED lastError
       ELSE /\ pc' = [pc EXCEPT ![i] = "failed"]
            /\ lastError' = [lastError EXCEPT ![i] = "runtime"]
            /\ UNCHANGED semVars
    /\ UNCHANGED <<commands, limit, mustCancel>>
    /\ UNCHANGED <<outVars, mainVars, groupVars, slept>>

\* if attempt == 4: raise e
IsLastAttempt(a) == a = LastAttempt

\* A retry loop that gives up at once on a response it cannot decode.
AfterCallDecodeFatal(i, outcome) ==
    IF outcome = "ok" THEN "done"
    ELSE IF outcome = "decode" \/ IsLastAttempt(attempt[i]) THEN "failed"
    ELSE "sleeping"

\* What a task does with the outcome of one _parse_command call.
AfterCall(i, outcome) ==
    IF outcome = "ok" THEN "done"
    ELSE IF IsLastAttempt(attempt[i]) THEN "failed"
    ELSE "sleeping"

\* An append that stores the record of the first command.
AppendedFirst(r, i) == Append(r, Command(0))

\* result.append(command)
Appended(r, i) == Append(r, Command(i))

\* An update that does not count.
UpdatedNot(p) == p

\* progress.update(1) after a parsed command.
Updated(p) == p + 1

\* The remote call of task i comes back.  The async with block releases the
\* permit; then the response is decoded and validated (line 87), the record
\* appended and the progress bar updated, or the except branch runs.
\* outcome: "ok", "call" (the call raised), "decode" (line 87 raised).
Return(i, outcome) ==
    /\ pc[i] = "calling"
    /\ ~mustCancel[i]
    /\ Release(i, AfterCall(i, outcome), mustCancel)
    /\ IF outcome = "ok"
       THEN /\ result' = Appended(result, i)
            /\ progress' = Updated(progress)
            /\ ticks' = [ticks EXCEPT ![i] = @ + 1]
            /\ UNCHANGED <<lastError, slept>>
       ELSE /\ lastError' = [lastError EXCEPT ![i] = outcome]
            /\ slept' = IF IsLastAttempt(attempt[i]) THEN slept
                        ELSE [slept EXCEPT ![i] = Append(@, Backoff(attempt[i]))]
            /\ UNCHANGED outVars
    /\ UNCHANGED <<commands, limit, attempt, mustCancel>>
    /\ UNCHANGED <<mainVars, groupVars>>

\* CancelledError is thrown into task i at the await it is suspended in; it
\* is not an Exception, so the except branch does not catch it.  Inside the
\* remote call the async with block releases the permit on the way out.
Cancelled(i) ==
    /\ pc[i] \in Live
    /\ mustCancel[i]
    /\ mustCancel' = [mustCancel EXCEPT ![i] = FALSE]
    /\ IF pc[i] = "calling"
       THEN Release(i, "cancelled", mustCancel')
       ELSE /\ pc' = [pc EXCEPT ![i] = "cancelled"]
            /\ waiters' = Remove(waiters, i)
            /\ UNCHANGED <<value, holds, calls>>
    /\ UNCHANGED <<commands, limit, attempt, lastError>>
    /\ UNCHANGED <<outVars, mainVars, groupVars, slept>>

(***************************************************************************)
(* asyncio.TaskGroup and main()                                            *)
(***************************************************************************)

\* A submission that first waits for a free permit.
SubmitGated ==
    /\ value > 0
    /\ mainpc = "loop"
    /\ ~mainCancel
    /\ nextItem < commands
    /\ pc' = [pc EXCEPT ![nextItem] = "ready"]
    /\ tasks' = tasks \cup {nextItem}
    /\ nextItem' = nextItem + 1
    /\ pacing' = pacing + 1
    /\ UNCHANGED <<commands, limit, attempt, mustCancel, lastError>>
    /\ UNCHANGED <<semVars, outVars, mainpc, written, errors, aborting,
                   mainCancel, slept>>

\* tg.create_task(...) followed by await asyncio.sleep(0.1)
Submit ==
    /\ mainpc = "loop"
    /\ ~mainCancel
    /\ nextItem < commands
    /\ pc' = [pc EXCEPT ![nextItem] = "ready"]
    /\ tasks' = tasks \cup {nextItem}
    /\ nextItem' = nextItem + 1
    /\ pacing' = pacing + 1
    /\ UNCHANGED <<commands, limit, attempt, mustCancel, lastError>>
    /\ UNCHANGED <<semVars, outVars, mainpc, written, errors, aborting,
                   mainCancel, slept>>

\* The last pacing sleep returns and the loop ends: TaskGroup.__aexit__.
EnterJoin ==
    /\ mainpc = "loop"
    /\ ~mainCancel
    /\ nextItem = commands
    /\ mainpc' = "join"
    /\ UNCHANGED <<commands, limit, attempt, mustCancel, lastError, pc>>
    /\ UNCHANGED <<semVars, outVars, groupVars, nextItem, written, pacing,
                   slept>>

\* The tasks TaskGroup._abort() cancels: those that are not done.
AbortTargets == {j \in tasks : pc[j] \in Live}

\* A group that cancels the siblings of a failed task but not main().
OnTaskDoneKeepParent(i) ==
    /\ i \in tasks
    /\ pc[i] \in Terminal
    /\ tasks' = tasks \ {i}
    /\ IF pc[i] = "failed"
       THEN /\ errors' = errors \cup {i}
            /\ IF ~aborting /\ mainpc \in {"loop", "join"}
               THEN /\ aborting' = TRUE
                    /\ mustCancel' = [j \in Items |->
                                        mustCancel[j] \/ j \in AbortTargets]
                    /\ UNCHANGED mainCancel
               ELSE UNCHANGED <<aborting, mustCancel, mainCancel>>
       ELSE UNCHANGED <<errors, aborting, mustCancel, mainCancel>>
    /\ UNCHANGED <<commands, limit, attempt, lastError, pc>>
    /\ UNCHANGED <<semVars, outVars, mainVars, slept>>

\* TaskGroup._on_task_done(i)
OnTaskDone(i) ==
    /\ i \in tasks
    /\ pc[i] \in Terminal
    /\ tasks' = tasks \ {i}
    /\ IF pc[i] = "failed"
       THEN /\ errors' = errors \cup {i}
            /\ IF ~aborting /\ mainpc \in {"loop", "join"}
               THEN /\ aborting' = TRUE
                    /\ mustCancel' = [j \in Items |->
                                        mustCancel[j] \/ j \in AbortTargets]
                    /\ mainCancel' = TRUE
               ELSE UNCHANGED <<aborting, mustCancel, mainCancel>>
       ELSE UNCHANGED <<errors, aborting, mustCancel, mainCancel>>
    /\ UNCHANGED <<commands, limit, attempt, lastError, pc>>
    /\ UNCHANGED <<semVars, outVars, mainVars, slept>>

\* CancelledError reaches main(): out of the pacing sleep into __aexit__,
\* or inside the wait of __aexit__, which swallows it while aborting.
MainCancelled ==
    /\ mainpc \in {"loop", "join"}
    /\ mainCancel
    /\ mainCancel' = FALSE
    /\ mainpc' = "join"
    /\ UNCHANGED <<commands, limit, attempt, mustCancel, lastError, pc>>
    /\ UNCHANGED <<semVars, outVars, tasks, errors, aborting, nextItem,
                   written, pacing, slept>>

\* A group that does not wait for its tasks.
NoTaskLeftAssumed == TRUE

\* while self._tasks: the wait of __aexit__ is over.
NoTaskLeft == tasks = {}

\* A group that forgets the exceptions of its tasks.
HasErrorsNever == FALSE

\* if self._errors: raise BaseExceptionGroup(...)
HasErrors == errors # {}

\* command.model_dump(): the dictionary of one record.
ModelDump(c) == [dumpOf |-> c.source]

\* json.dump([command.model_dump() for command in result], ...)
Dumped(r) == [k \in 1 .. Len(r) |-> ModelDump(r[k])]

\* __aexit__ finds no task left: it raises the exception group, or main()
\* goes on to close the progress bar and write the result.
Leave ==
    /\ mainpc = "join"
    /\ ~mainCancel
    /\ NoTaskLeft
    /\ IF HasErrors
       THEN /\ mainpc' = "error"
            /\ UNCHANGED written
       ELSE /\ mainpc' = "persisted"
            /\ written' = Dumped(result)
    /\ UNCHANGED <<commands, limit, attempt, mustCancel, lastError, pc>>
    /\ UNCHANGED <<semVars, outVars, groupVars, nextItem, pacing, slept>>

Next ==
    \/ Submit
    \/ EnterJoin
    \/ MainCancelled
    \/ Leave
    \/ \E i \in Items : Start(i)
    \/ \E i \in Items : Wake(i)
    \/ \E i \in Items, o \in {"ok", "call", "decode"} : Return(i, o)
    \/ \E i \in Items : Cancelled(i)
    \/ \E i \in Items : OnTaskDone(i)

Spec == Init /\ [][Next]_vars

\* The steps of main() and of the callbacks of its task group.
MainNext ==
    \/ Submit
    \/ EnterJoin
    \/ MainCancelled
    \/ Leave
    \/ \E i \in Items : OnTaskDone(i)

\* The steps of the task of command i.
TaskNext(i) ==
    \/ Start(i)
    \/ Wake(i)
    \/ \E o \in {"ok", "call", "decode"} : Return(i, o)
    \/ Cancelled(i)

\* The event loop runs every callback that is ready, every timer expires
\* and every remote call comes back.
Fairness ==
    /\ WF_vars(MainNext)
    /\ \A i \in Items : WF_vars(TaskNext(i))

FairSpec == Spec /\ Fairness

\* The crowded run: CrowdItems commands on a single permit, the smallest
\* run in which one task waits behind the call of a second while a third
\* exhausts its retries.
CrowdInit ==
    /\ commands = CrowdItems
    /\ limit = 1
    /\ Loaded

CrowdSpec == CrowdInit /\ [][Next]_vars

TypeOK ==
    /\ commands \in 0 .. CrowdItems
    /\ value \in 0 .. limit
    /\ \A i \in Items : pc[i] \in {"new"} \cup Live \cup Terminal
    /\ \A i \in Items : attempt[i] \in 0 .. MaxAttempts

(***************************************************************************)
(* Properties                                                              *)
(***************************************************************************)

Submitted == 0 .. (commands - 1)

RunEnded == mainpc \in {"persisted", "error"}

\* Calls of item i that came back with an error.
Failures(i) == Len(slept[i]) + (IF pc[i] = "failed" THEN 1 ELSE 0)

\* C1: when a run ends successfully, the i-th element of the persisted
\* result is the record extracted from the i-th input item.
OrderFidelity ==
    mainpc = "persisted" =>
        /\ Len(written) = commands
        /\ \A i \in Submitted : written[i + 1] = ModelDump(Command(i))

\* C2: the number of tasks inside a remote extractor call never exceeds the
\* capacity of the limiter.
ConcurrencyBound ==
    Cardinality({i \in Items : pc[i] = "calling"}) <= limit

\* The limiter is full and another task waits behind it.
ConcurrencyBoundWitness ==
    /\ Cardinality({i \in Items : pc[i] = "calling"}) = limit
    /\ Len(waiters) > 0
    /\ value = 0

\* C3: a run reports its outcome only after every item was submitted and ran
\* to its own Success or Failure; no sibling of an exhausted item is aborted.
SettleAllThenAggregate ==
    RunEnded => \A i \in Submitted : pc[i] \in {"done", "failed"}

\* C4: at the end of a run, an item whose extractor calls all failed had
\* exactly 5 calls and ended in Failure.
Exhaustion ==
    \A i \in Submitted :
        (RunEnded /\ calls[i] >= 1 /\ Failures(i) = calls[i]) =>
            (calls[i] = 5 /\ pc[i] = "failed")

\* C5: no item ever gets more than 5 extractor calls.
AttemptBudget == \A i \in Items : calls[i] <= 5

\* An item is inside its fifth call while a sibling already succeeded.
AttemptBudgetWitness ==
    \E i, j \in Items :
        /\ calls[i] = 5 /\ pc[i] = "calling" /\ attempt[i] = 4
        /\ pc[j] = "done"

\* C6: the delays an item has taken are 1, 2, 4, 8 in this order, one after
\* each failed attempt but the fifth and none before the first attempt; an
\* item that succeeds on its fifth attempt slept 15 time units in total.
BackoffLaw ==
    \A i \in Items :
        /\ Len(slept[i]) <= 4
        /\ \A k \in 1 .. Len(slept[i]) : slept[i][k] = <<1, 2, 4, 8>>[k]
        /\ pc[i] \in {"calling", "done"} => Len(slept[i]) = calls[i] - 1
        /\ pc[i] \in {"sleeping", "waiting"} => Len(slept[i]) = calls[i]
        /\ pc[i] = "failed" => calls[i] = 5 /\ Len(slept[i]) = 4
        /\ (pc[i] = "done" /\ calls[i] = 5) => SumSeq(slept[i]) = 15

\* An item failed four times and succeeded on its fifth attempt.
BackoffLawWitness ==
    \E i \in Items :
        pc[i] = "done" /\ calls[i] = 5 /\ slept[i] = <<1, 2, 4, 8>>

\* C7: the result is persisted only when every item ended in Success, and
\* then holds exactly one record per item; once an item has exhausted its
\* retries nothing is persisted.
NoSilentPartialResult ==
    /\ mainpc = "persisted" =>
          /\ \A i \in Submitted : pc[i] = "done"
          /\ Len(written) = commands
          /\ \A i \in Submitted :
                Cardinality({k \in 1 .. Len(written) :
                                written[k] = ModelDump(Command(i))}) = 1
    /\ (\E i \in Items : pc[i] = "failed") =>
          mainpc # "persisted" /\ written = <<>>

\* A complete result of at least two items, one of which had retried, was
\* persisted.
NoSilentPartialResultWitness ==
    /\ mainpc = "persisted"
    /\ commands >= 2
    /\ Len(written) = commands
    /\ \E i \in Submitted : calls[i] > 1

\* C8: a task has ticked the progress counter exactly once if it ended in
\* Success or Failure, and not at all before.
TickOncePerSettledTask ==
    \A i \in Items :
        ticks[i] = (IF pc[i] \in {"done", "failed"} THEN 1 ELSE 0)

\* C9: the progress count never exceeds the number of items, and equals it
\* once every item has settled in Success or Failure.
ProgressReachesTotal ==
    /\ progress <= commands
    /\ (\A i \in Submitted : pc[i] \in {"done", "failed"}) =>
          progress = commands

\* The progress count never decreases.
ProgressNonDecreasing == [][progress' >= progress]_vars

\* C10: a task holds one permit while it is inside a remote call and none
\* in any other state.
PermitScope ==
    \A i \in Items : holds[i] = (IF pc[i] = "calling" THEN 1 ELSE 0)

\* With a single permit, a task sleeps in backoff after a response that
\* could not be decoded while another task is inside its call.
PermitScopeWitness ==
    /\ limit = 1
    /\ \E i, j \in Items :
          /\ pc[i] = "sleeping" /\ lastError[i] = "decode" /\ holds[i] = 0
          /\ pc[j] = "calling" /\ holds[j] = 1

RECURSIVE SumOver(_, _)
SumOver(f, S) ==
    IF S = {} THEN 0
    ELSE LET x == CHOOSE y \in S : TRUE IN f[x] + SumOver(f, S \ {x})

\* Task i was cancelled while it was inside a remote call.
CancelledInCall(i) == pc[i] = "cancelled" /\ calls[i] = Len(slept[i]) + 1

\* C11: the permits held by tasks and the free permits always add up to the
\* capacity, and all of them are free once no task is left running.
NoPermitLeak ==
    /\ value + SumOver(holds, Items) = limit
    /\ (\A i \in Items : pc[i] \notin Live) => value = limit

\* Every exit path of a call was taken (success, error, cancellation inside
\* the call), the run has ended and every permit is free again.
NoPermitLeakWitness ==
    /\ RunEnded
    /\ value = limit
    /\ \E i, j \in Items :
          /\ CancelledInCall(i)
          /\ pc[j] = "failed"

\* C12: every task that waits for a permit is eventually admitted to its
\* remote call.  A task that has ended never runs again, so this requires
\* that a waiting task leaves the queue only into its call.
WaiterAdmitted ==
    [][\A i \in Items :
          pc[i] = "waiting" => pc'[i] \in {"waiting", "calling"}]_vars

\* C13: an item that ended in Success failed on every attempt before its
\* last one and made no call after it: j failures give j + 1 calls and j
\* backoffs; its record is in the result once, as extracted.  Once an item
\* has succeeded, its calls, backoffs and record never change.
SuccessStopsRetry ==
    /\ [](\A i \in Items :
            pc[i] = "done" =>
               /\ calls[i] = Len(slept[i]) + 1
               /\ calls[i] = attempt[i] + 1
               /\ calls[i] \in 1 .. 5
               /\ \E k \in 1 .. Len(result) :
                     /\ result[k] = Command(i)
                     /\ \A m \in 1 .. Len(result) :
                           result[m].source = i => m = k)
    /\ [][\A i \in Items :
            pc[i] = "done" =>
               /\ pc'[i] = "done"
               /\ calls'[i] = calls[i]
               /\ slept'[i] = slept[i]
               /\ \A k \in 1 .. Len(result) : result'[k] = result[k]]_vars

\* The second item failed twice and succeeded on its third call, after a
\* sibling had succeeded at once.
SuccessStopsRetryWitness ==
    /\ pc[1] = "done" /\ calls[1] = 3 /\ slept[1] = <<1, 2>>
    /\ pc[0] = "done" /\ calls[0] = 1
    /\ result = <<Command(0), Command(1)>>

\* C14: an error of the call and an error of decoding the response count
\* alike: whatever its kind, each error used one attempt and was followed by
\* the backoff of that attempt, and an item has failed for good only by the
\* error of its 5th attempt.
UniformErrors ==
    \A i \in Items :
        /\ pc[i] = "sleeping" =>
              /\ lastError[i] \in {"call", "decode"}
              /\ calls[i] = attempt[i] + 1
              /\ Len(slept[i]) = calls[i]
              /\ slept[i][calls[i]] = <<1, 2, 4, 8>>[calls[i]]
        /\ pc[i] = "failed" =>
              /\ lastError[i] \in {"call", "decode"}
              /\ attempt[i] = 4
              /\ calls[i] = 5
              /\ Len(slept[i]) = 4
        /\ lastError[i] \in {"call", "decode"} => holds[i] \in {0, 1}

\* One item failed for good on a response that could not be decoded while
\* another sleeps after an error of the call itself.
UniformErrorsWitness ==
    \E i, j \in Items :
        /\ pc[i] = "failed" /\ lastError[i] = "decode"
        /\ pc[j] = "sleeping" /\ lastError[j] = "call"

\* C15: when main() has left the task group, no task it created is still
\* running, waiting, sleeping or inside a call, and none holds a permit.
WaitForAll ==
    RunEnded =>
        /\ \A i \in Items : pc[i] \notin Live /\ holds[i] = 0
        /\ \A i \in Items : i < nextItem => pc[i] \in Terminal
        /\ tasks = {}

\* The run ended with an error after one task had failed and another had
\* been cancelled.
WaitForAllWitness ==
    /\ mainpc = "error"
    /\ \E i, j \in Items : pc[i] = "failed" /\ pc[j] = "cancelled"

\* C16: a cancelled task is stopped only before it asks for a permit or
\* starts a backoff sleep; a remote call in flight is never interrupted, and
\* a stopped task holds no permit.  (Waiting for a permit and sleeping are
\* suspension points at which a task may be stopped.)
CooperativeCancellation ==
    [][\A i \in Items :
          pc'[i] = "cancelled" /\ pc[i] # "cancelled" =>
             /\ pc[i] # "calling"
             /\ holds'[i] = 0]_vars

\* The tasks that were created and have not ended.
Unfinished == {i \in Items : pc[i] \in Live}

\* C17: tasks are created in input order, one pacing sleep after each; the
\* next submission is possible whatever the number of free permits, and the
\* calls in flight never exceed the capacity.
SubmissionOrder ==
    /\ \A i \in Items : pc[i] # "new" <=> i < nextItem
    /\ nextItem <= commands
    /\ pacing = nextItem
    /\ (mainpc = "loop" /\ ~mainCancel /\ nextItem < commands) =>
          ENABLED Submit
    /\ Cardinality({i \in Items : holds[i] > 0}) <= limit

\* Every permit is held, a task was created that has not yet asked for one,
\* and more tasks are unfinished than there are permits.
SubmissionOrderWitness ==
    /\ value = 0
    /\ \E i \in Items : pc[i] = "ready" /\ calls[i] = 0
    /\ Cardinality(Unfinished) > limit

\* C18: once the exception of an exhausted task has reached the task group,
\* no further item is submitted and no call is made for an item that was not
\* submitted.
SubmissionAborts ==
    [][errors # {} =>
          /\ nextItem' = nextItem
          /\ \A i \in Items : i >= nextItem =>
                pc'[i] = "new" /\ calls'[i] = 0]_vars

\* The run ended with an error and a command that was never submitted.
SubmissionAbortsWitness ==
    /\ mainpc = "error"
    /\ errors # {}
    /\ nextItem < commands
    /\ pc[nextItem] = "new" /\ calls[nextItem] = 0

\* C19: every run ends, with the result persisted or with the error.
Termination == <>RunEnded

\* A run ended after an item had used all of its 5 calls.
TerminationWitness ==
    /\ RunEnded
    /\ commands >= 2
    /\ \E i \in Items : calls[i] = 5

\* C20: the progress count equals the number of records in the result list.
ProgressEqualsResults == progress = Len(result)

\* One record was collected and counted, and a task ended without a record:
\* it failed or was cancelled.
ProgressEqualsResultsWitness ==
    /\ progress = 1
    /\ Len(result) = 1
    /\ \E i \in Items : pc[i] \in {"failed", "cancelled"}

====
